---- MODULE Spec2Model ----
(***************************************************************************)
(* SalesAnalyzer (analyzer_claude.py and analyzer_gpt-4-1.py): the CSV     *)
(* loader with its per-row validation, the two aggregations and the batch  *)
(* entry point, as a state machine over one analyzer object and the input  *)
(* file it names.                                                          *)
(***************************************************************************)
EXTENDS Integers, Sequences, FiniteSets

\* Largest number of data rows of an input file.
MaxRows == 2

VARIABLES
    variant,        \* which source file the analyzer is built from
    file,           \* the input file on disk (the environment's state)
    data,           \* self.data
    total_sales,    \* self.total_sales
    top_product,    \* self.top_product
    out,            \* the lines printed by the most recent call
    ret,            \* the most recent call and what it returned
    seen,           \* the file as the most recent load_data call found it
    prev,           \* results of the aggregations since the last load_data
    pc              \* "lib": free use of the class; "main_*": the batch script

vars == <<variant, file, data, total_sales, top_product, out, ret, seen, prev, pc>>

Variants == {"claude", "gpt41"}

-----------------------------------------------------------------------------
\* Python values.

\* None
PyNone == [t |-> "None"]

\* A float: a finite value (small integers stand for themselves) or NaN.
Fin(n) == [nan |-> FALSE, v |-> n]
NaN == [nan |-> TRUE, v |-> 0]

\* a < b on floats: every comparison with NaN is False.
FLt(a, b) == ~a.nan /\ ~b.nan /\ a.v < b.v
\* a > b on floats.
FGt(a, b) == FLt(b, a)
\* a >= b on floats.
FGe(a, b) == ~a.nan /\ ~b.nan /\ a.v >= b.v
\* a + b on floats.
FAdd(a, b) == IF a.nan \/ b.nan THEN NaN ELSE Fin(a.v + b.v)
\* float * int.
FMulInt(a, q) == IF a.nan THEN NaN ELSE Fin(a.v * q)

-----------------------------------------------------------------------------
\* Raw text of the input.

Columns == {"product_name", "price", "quantity"}

\* A field that a short data row does not have: csv.DictReader stores None.
Missing == "<None>"

\* Field texts of the data rows.
NameTexts == {"A", "  "}
PriceTexts == {"5", "x", "-1"}
QuantityTexts == {"1", "x", "-1"}

\* Data rows under a full header: every combination of the texts above, and
\* rows that add a padded name, a second price and quantity, zeros, a nan
\* price and a short row.
RawRows ==
    [product_name : NameTexts, price : PriceTexts, quantity : QuantityTexts]
    \cup {[product_name |-> " B ", price |-> "5", quantity |-> "2"],
          [product_name |-> "C", price |-> "10", quantity |-> "1"],
          [product_name |-> "A", price |-> "0", quantity |-> "0"],
          [product_name |-> "A", price |-> "nan", quantity |-> "1"],
          [product_name |-> "A", price |-> "5", quantity |-> Missing]}

\* Data rows as DictReader yields them under the header h: a mapping from the
\* header's columns to texts.
RowsFor(h) == {[c \in h |-> r[c]] : r \in RawRows}

\* Sequences of at most n elements of S.
SeqUpTo(S, n) == UNION {[1..k -> S] : k \in 0..n}

\* Headers of the input: all three columns, or one of them absent.
Headers == {Columns} \cup {Columns \ {c} : c \in Columns}

\* The input files: absent from disk, empty (DictReader.fieldnames is None),
\* or a header and data rows.
Files ==
    {[exists |-> e, has_header |-> FALSE, fieldnames |-> {}, rows |-> <<>>] :
        e \in BOOLEAN}
    \cup UNION {{[exists |-> TRUE, has_header |-> TRUE, fieldnames |-> h, rows |-> rs] :
                    rs \in SeqUpTo(RowsFor(h), MaxRows)} : h \in Headers}

\* str.strip()
Strip(s) ==
    CASE s = " B " -> "B"
      [] s = "  " -> ""
      [] OTHER -> s

\* float(s): ok is FALSE when it raises ValueError.
ParseFloat(s) ==
    CASE s = "5" -> [ok |-> TRUE, val |-> Fin(5)]
      [] s = "10" -> [ok |-> TRUE, val |-> Fin(10)]
      [] s = "0" -> [ok |-> TRUE, val |-> Fin(0)]
      [] s = "1" -> [ok |-> TRUE, val |-> Fin(1)]
      [] s = "2" -> [ok |-> TRUE, val |-> Fin(2)]
      [] s = "-1" -> [ok |-> TRUE, val |-> Fin(-1)]
      [] s = "nan" -> [ok |-> TRUE, val |-> NaN]
      [] OTHER -> [ok |-> FALSE, val |-> NaN]

\* int(s): ok is FALSE when it raises ValueError.
ParseInt(s) ==
    CASE s = "5" -> [ok |-> TRUE, val |-> 5]
      [] s = "10" -> [ok |-> TRUE, val |-> 10]
      [] s = "0" -> [ok |-> TRUE, val |-> 0]
      [] s = "1" -> [ok |-> TRUE, val |-> 1]
      [] s = "2" -> [ok |-> TRUE, val |-> 2]
      [] s = "-1" -> [ok |-> TRUE, val |-> -1]
      [] OTHER -> [ok |-> FALSE, val |-> 0]

-----------------------------------------------------------------------------
\* Printed lines: the row number (0 for a line about no row) and the reason.

Line(n, reason) == [row |-> n, reason |-> reason]

NotFoundLine == Line(0, "file not found")
SchemaLine == Line(0, "must contain product_name, price, quantity columns")
NoValidRowsLine == Line(0, "no valid data rows")
NoDataLine == Line(0, "no data loaded")
FailedLine == Line(0, "failed to load data")
TotalLine == Line(0, "total sales")
TopLine == Line(0, "top-selling product")
NoTopLine == Line(0, "no top product found")

EmptyName == "empty product name"
BadPrice == "price is not a valid number"
BadQuantity == "quantity is not a valid integer"
NegPrice == "price cannot be negative"
NegQuantity == "quantity cannot be negative"
Unexpected == "unexpected error"

-----------------------------------------------------------------------------
\* load_data

\* The header test of load_data: TRUE when the load goes on to the rows.
SchemaOk(v, f) ==
    IF v = "claude"
    THEN f.has_header /\ "product_name" \in f.fieldnames
    ELSE f.has_header /\ Columns \subseteq f.fieldnames

\* What the three field reads of a row give before .strip(): claude reads
\* row.get(c, ''), gpt41 reads (row.get(c) or '').
Field(v, row, c) ==
    IF v = "claude"
    THEN IF c \in DOMAIN row THEN row[c] ELSE ""
    ELSE IF c \in DOMAIN row /\ row[c] # Missing THEN row[c] ELSE ""

\* CheckRow with both sign checks placed right after the price is parsed,
\* before the quantity is parsed.
CheckRow_SignBeforeQuantity(n, name, price_str, quantity_str) ==
    LET price == ParseFloat(price_str)
        quantity == ParseInt(quantity_str)
        skip(reason) == [keep |-> FALSE, line |-> Line(n, reason),
                         rec |-> [product_name |-> "", price |-> NaN, quantity |-> 0]]
    IN  IF name = "" THEN skip(EmptyName)
        ELSE IF ~price.ok THEN skip(BadPrice)
        ELSE IF FLt(price.val, Fin(0)) THEN skip(NegPrice)
        ELSE IF ~quantity.ok THEN skip(BadQuantity)
        ELSE IF quantity.val < 0 THEN skip(NegQuantity)
        ELSE [keep |-> TRUE, line |-> Line(n, ""),
              rec |-> [product_name |-> name, price |-> price.val,
                       quantity |-> quantity.val]]

\* The checks of one row after its three texts are stripped, in the code's
\* order; keep is TRUE when the row is appended to self.data.
CheckRow(n, name, price_str, quantity_str) ==
    LET price == ParseFloat(price_str)
        quantity == ParseInt(quantity_str)
        skip(reason) == [keep |-> FALSE, line |-> Line(n, reason),
                         rec |-> [product_name |-> "", price |-> NaN, quantity |-> 0]]
    IN  IF name = "" THEN skip(EmptyName)
        ELSE IF ~price.ok THEN skip(BadPrice)
        ELSE IF ~quantity.ok THEN skip(BadQuantity)
        ELSE IF FLt(price.val, Fin(0)) THEN skip(NegPrice)
        ELSE IF quantity.val < 0 THEN skip(NegQuantity)
        ELSE [keep |-> TRUE, line |-> Line(n, ""),
              rec |-> [product_name |-> name, price |-> price.val,
                       quantity |-> quantity.val]]

\* One iteration of the row loop, for the row numbered n.
RowOutcome(v, n, row) ==
    LET name_raw == Field(v, row, "product_name")
        price_raw == Field(v, row, "price")
        quantity_raw == Field(v, row, "quantity")
    IN  IF Missing \in {name_raw, price_raw, quantity_raw}
        THEN \* None.strip() raises AttributeError, caught by except Exception
             [keep |-> FALSE, line |-> Line(n, Unexpected),
              rec |-> [product_name |-> "", price |-> NaN, quantity |-> 0]]
        ELSE CheckRow(n, Strip(name_raw), Strip(price_raw), Strip(quantity_raw))

\* The row loop leaving at the first skipped row (break for continue).
RECURSIVE RowLoop_Break(_, _, _, _, _)
RowLoop_Break(v, rows, k, d, o) ==
    IF k > Len(rows) THEN [data |-> d, out |-> o]
    ELSE LET r == RowOutcome(v, k + 1, rows[k])
         IN  IF r.keep
             THEN RowLoop_Break(v, rows, k + 1, Append(d, r.rec), o)
             ELSE [data |-> d, out |-> Append(o, r.line)]

\* The row loop: enumerate(csv_reader, start=2).
RECURSIVE RowLoop(_, _, _, _, _)
RowLoop(v, rows, k, d, o) ==
    IF k > Len(rows) THEN [data |-> d, out |-> o]
    ELSE LET r == RowOutcome(v, k + 1, rows[k])
         IN  IF r.keep
             THEN RowLoop(v, rows, k + 1, Append(d, r.rec), o)
             ELSE RowLoop(v, rows, k + 1, d, Append(o, r.line))

\* load_data as a whole: the new self.data, the printed lines and the result.
LoadResult(v, f, d) ==
    IF ~f.exists
    THEN [data |-> d, out |-> <<NotFoundLine>>, ret |-> FALSE]
    ELSE IF ~SchemaOk(v, f)
    THEN [data |-> <<>>, out |-> <<SchemaLine>>, ret |-> FALSE]
    ELSE LET r == RowLoop(v, f.rows, 1, <<>>, <<>>)
         IN  IF r.data = <<>>
             THEN [data |-> <<>>, out |-> Append(r.out, NoValidRowsLine), ret |-> FALSE]
             ELSE [data |-> r.data, out |-> r.out, ret |-> TRUE]

-----------------------------------------------------------------------------
\* The aggregations.

\* price * quantity of one record.
Revenue(item) == FMulInt(item.price, item.quantity)

\* sum(item['price'] * item['quantity'] for item in self.data): the builtin
\* adds from the left, starting at 0.
RECURSIVE SumLoop(_, _, _)
SumLoop(d, k, acc) ==
    IF k > Len(d) THEN acc ELSE SumLoop(d, k + 1, FAdd(acc, Revenue(d[k])))

\* The sum without the first record.
SumRevenue_SkipFirst(d) == SumLoop(d, 2, Fin(0))

SumRevenue(d) == SumLoop(d, 1, Fin(0))

\* The list comprehension of find_top_product.
Products(d) ==
    [i \in 1..Len(d) |->
        [product_name |-> d[i].product_name, price |-> d[i].price,
         quantity |-> d[i].quantity, total_revenue |-> Revenue(d[i])]]

\* item replaces the current best of max(): the builtin compares key(item) >
\* key(best).
Replaces(item, best) == FGt(item.total_revenue, best.total_revenue)

\* max(products, key=lambda x: x['total_revenue']) on a non-empty list: the
\* index of the result, scanning from the left.
RECURSIVE MaxLoop(_, _, _)
MaxLoop(ps, k, best) ==
    IF k > Len(ps) THEN best
    ELSE MaxLoop(ps, k + 1, IF Replaces(ps[k], ps[best]) THEN k ELSE best)

MaxIndex(ps) == MaxLoop(ps, 2, 1)

\* calculate_total_sales without its test for an empty collection.
TotalResult_Unguarded(d, ts) ==
    [total_sales |-> SumRevenue(d), out |-> <<>>, raised |-> FALSE, val |-> SumRevenue(d)]

\* calculate_total_sales adding to self.total_sales (+= for =).
TotalResult_Accumulate(d, ts) ==
    IF d = <<>>
    THEN [total_sales |-> ts, out |-> <<NoDataLine>>, raised |-> FALSE, val |-> Fin(0)]
    ELSE [total_sales |-> FAdd(ts, SumRevenue(d)), out |-> <<>>, raised |-> FALSE,
          val |-> FAdd(ts, SumRevenue(d))]

\* calculate_total_sales as a whole.
TotalResult(d, ts) ==
    IF d = <<>>
    THEN [total_sales |-> ts, out |-> <<NoDataLine>>, raised |-> FALSE, val |-> Fin(0)]
    ELSE [total_sales |-> SumRevenue(d), out |-> <<>>, raised |-> FALSE,
          val |-> SumRevenue(d)]

\* find_top_product as a whole.
TopResult(d, tp) ==
    IF d = <<>>
    THEN [top_product |-> tp, out |-> <<NoDataLine>>, raised |-> FALSE, val |-> PyNone]
    ELSE LET ps == Products(d)
         IN  [top_product |-> ps[MaxIndex(ps)], out |-> <<>>, raised |-> FALSE,
              val |-> ps[MaxIndex(ps)]]

-----------------------------------------------------------------------------
\* The state machine.

Bool(b) == [t |-> "bool", b |-> b]
NoCall == [t |-> "no call"]
\* No aggregation was called since the last load_data; repeated becomes TRUE
\* when one of them is called again.
NoCalls == [total |-> NoCall, top |-> NoCall, repeated |-> FALSE]
NeverLoaded == [t |-> "never loaded"]
AbsentFile == [exists |-> FALSE, has_header |-> FALSE, fieldnames |-> {}, rows |-> <<>>]
EmptyFile == [exists |-> TRUE, has_header |-> FALSE, fieldnames |-> {}, rows |-> <<>>]

\* __init__, and the choice of the input file, the source variant and the
\* caller (the batch script or free use of the class).
Init ==
    /\ variant \in Variants
    /\ file \in Files
    /\ data = <<>>
    /\ total_sales = Fin(0)
    /\ top_product = PyNone
    /\ out = <<>>
    /\ ret = [op |-> "none", raised |-> FALSE, val |-> PyNone]
    /\ seen = NeverLoaded
    /\ prev = NoCalls
    /\ pc \in {"lib", "main"}

\* A call of load_data.
CallLoad ==
    LET r == LoadResult(variant, file, data)
    IN  /\ data' = r.data
        /\ out' = r.out
        /\ ret' = [op |-> "load_data", raised |-> FALSE, val |-> Bool(r.ret)]
        /\ seen' = file
        /\ prev' = NoCalls
        /\ UNCHANGED <<variant, file, total_sales, top_product>>

\* A call of calculate_total_sales.
CallTotal ==
    LET r == TotalResult(data, total_sales)
    IN  /\ total_sales' = r.total_sales
        /\ out' = r.out
        /\ ret' = [op |-> "calculate_total_sales", raised |-> r.raised, val |-> r.val]
        /\ prev' = [prev EXCEPT !.total = r.val,
                             !.repeated = @ \/ prev.total # NoCall]
        /\ UNCHANGED <<variant, file, data, top_product, seen>>

\* A call of find_top_product.
CallTop ==
    LET r == TopResult(data, top_product)
    IN  /\ top_product' = r.top_product
        /\ out' = r.out
        /\ ret' = [op |-> "find_top_product", raised |-> r.raised, val |-> r.val]
        /\ prev' = [prev EXCEPT !.top = r.val,
                             !.repeated = @ \/ prev.top # NoCall]
        /\ UNCHANGED <<variant, file, data, total_sales, seen>>

\* The methods called by any user of the class.
load_data == pc = "lib" /\ CallLoad /\ UNCHANGED pc

calculate_total_sales == pc = "lib" /\ CallTotal /\ UNCHANGED pc

find_top_product == pc = "lib" /\ CallTop /\ UNCHANGED pc

\* The script under __main__: the branch taken on load_data's result.
MainBranch_Always(loaded) == "main_total"

MainBranch(loaded) == IF loaded THEN "main_total" ELSE "main_else"

Main_load_data ==
    /\ pc = "main"
    /\ CallLoad
    /\ pc' = MainBranch(LoadResult(variant, file, data).ret)

Main_calculate_total_sales == pc = "main_total" /\ CallTotal /\ pc' = "main_top"

Main_find_top_product == pc = "main_top" /\ CallTop /\ pc' = "main_display"

\* display_results (claude), the inline printing (gpt41).
Main_display ==
    /\ pc = "main_display"
    /\ out' = <<TotalLine>> \o
              (IF top_product # PyNone THEN <<TopLine>>
               ELSE IF variant = "claude" THEN <<NoTopLine>> ELSE <<>>)
    /\ ret' = [op |-> "display", raised |-> FALSE, val |-> PyNone]
    /\ pc' = "main_done"
    /\ UNCHANGED <<variant, file, data, total_sales, top_product, seen, prev>>

Main_else ==
    /\ pc = "main_else"
    /\ out' = <<FailedLine>>
    /\ ret' = [op |-> "exit", raised |-> FALSE, val |-> PyNone]
    /\ pc' = "main_done"
    /\ UNCHANGED <<variant, file, data, total_sales, top_product, seen, prev>>

\* The environment: the input file is removed from disk.
FileDisappears ==
    /\ file.exists
    /\ file' = AbsentFile
    /\ UNCHANGED <<variant, data, total_sales, top_product, out, ret, seen, prev, pc>>

\* The environment: the input file is emptied, header included.
FileLosesHeader ==
    /\ file.exists /\ file.has_header
    /\ file' = EmptyFile
    /\ UNCHANGED <<variant, data, total_sales, top_product, out, ret, seen, prev, pc>>

\* The environment: the input file is rewritten with its header alone.
FileLosesRows ==
    /\ file.exists /\ file.rows # <<>>
    /\ file' = [file EXCEPT !.rows = <<>>]
    /\ UNCHANGED <<variant, data, total_sales, top_product, out, ret, seen, prev, pc>>

Next ==
    \/ load_data
    \/ calculate_total_sales
    \/ find_top_product
    \/ Main_load_data
    \/ Main_calculate_total_sales
    \/ Main_find_top_product
    \/ Main_display
    \/ Main_else
    \/ FileDisappears
    \/ FileLosesHeader
    \/ FileLosesRows

Spec == Init /\ [][Next]_vars

-----------------------------------------------------------------------------
\* Vocabulary of the properties, stated without the code's control flow.

AggregationOps == {"calculate_total_sales", "find_top_product"}

\* The most recent call was load_data (seen is the file it found).
Loaded == ret.op = "load_data"

\* The file is on disk and its header has the three required columns.
ValidHeader(f) == f.exists /\ f.has_header /\ Columns \subseteq f.fieldnames

\* The trimmed text of a field, an absent one read as empty.
Text(row, c) == IF c \notin DOMAIN row \/ row[c] = Missing THEN "" ELSE Strip(row[c])

\* The five checks of a row, each TRUE when the row fails it.
Failures(row) ==
    LET p == ParseFloat(Text(row, "price"))
        q == ParseInt(Text(row, "quantity"))
    IN  <<Text(row, "product_name") = "",
          ~p.ok,
          ~q.ok,
          p.ok /\ ~p.val.nan /\ p.val.v < 0,
          q.ok /\ q.val < 0>>

Reasons == <<EmptyName, BadPrice, BadQuantity, NegPrice, NegQuantity>>

Passes(row) == \A i \in 1..5 : ~Failures(row)[i]

\* The reason of the first check a failing row fails.
FirstReason(row) ==
    Reasons[CHOOSE i \in 1..5 :
                Failures(row)[i] /\ \A j \in 1..(i - 1) : ~Failures(row)[j]]

\* The record of a row that passes.
RecordOf(row) ==
    [product_name |-> Text(row, "product_name"),
     price |-> ParseFloat(Text(row, "price")).val,
     quantity |-> ParseInt(Text(row, "quantity")).val]

\* The passing rows of rows, in order, as records.
Survivors(rows) ==
    LET kept == SelectSeq(rows, Passes)
    IN  [i \in 1..Len(kept) |-> RecordOf(kept[i])]

\* The sum of the revenues of the records of d with index in S.
RECURSIVE RevenueOver(_, _)
RevenueOver(d, S) ==
    IF S = {} THEN Fin(0)
    ELSE LET i == CHOOSE i \in S : TRUE
         IN  FAdd(Revenue(d[i]), RevenueOver(d, S \ {i}))

-----------------------------------------------------------------------------
\* C1: an aggregation called on an empty record collection is rejected with
\* a precondition error instead of returning 0.0 / None.
C1_RejectsEmpty ==
    (ret.op \in AggregationOps /\ data = <<>>) => ret.raised

\* C1 as the code has it: on an empty record collection the aggregation
\* prints the "no data loaded" line and returns 0.0 / None normally.
C1_ReturnsDefault ==
    (ret.op \in AggregationOps /\ data = <<>>) =>
        /\ ~ret.raised
        /\ out = <<NoDataLine>>
        /\ ret.op = "calculate_total_sales" => ret.val = Fin(0)
        /\ ret.op = "find_top_product" => ret.val = PyNone

C1_Witness ==
    /\ ret.op = "find_top_product" /\ data = <<>> /\ ret.val = PyNone
    /\ prev.total = Fin(0)
    /\ seen # NeverLoaded

\* C2: in both variants a load of a file whose header is absent or lacks one
\* of the required columns fails with the schema line alone, processes no row
\* and leaves the record collection empty.
C2_SchemaCheck ==
    (Loaded /\ seen.exists /\ ~ValidHeader(seen)) =>
        /\ out = <<SchemaLine>>
        /\ data = <<>>
        /\ ret.val = Bool(FALSE)

\* C3: find_top_product on a non-empty collection returns the entry of the
\* lowest-index record whose revenue is the maximum revenue of the collection
\* (no record's revenue is above it, no earlier record's revenue equals it).
C3_FirstMaximum ==
    (ret.op = "find_top_product" /\ data # <<>>) =>
        \E i \in 1..Len(data) :
            /\ ret.val = Products(data)[i]
            /\ \A j \in 1..Len(data) :
                   ~Revenue(data[j]).nan => FGe(Revenue(data[i]), Revenue(data[j]))
            /\ \A j \in 1..(i - 1) : Revenue(data[j]) # Revenue(data[i])

\* C4: every record of the collection has a non-empty trimmed name, a price
\* >= 0 and a quantity >= 0, in every reachable state.
C4_RecordsValid ==
    \A i \in 1..Len(data) :
        /\ data[i].product_name # ""
        /\ Strip(data[i].product_name) = data[i].product_name
        /\ FGe(data[i].price, Fin(0))
        /\ data[i].quantity >= 0

\* C5: after a load of an existing file with a valid header the collection
\* is exactly the rows that pass all five checks, in input order.
C5_ExactlyTheValidRows ==
    (Loaded /\ ValidHeader(seen)) => data = Survivors(seen.rows)

C5_Witness ==
    /\ Loaded /\ ValidHeader(seen)
    /\ Len(seen.rows) = 2
    /\ ~Passes(seen.rows[1]) /\ Passes(seen.rows[2])
    /\ data = <<RecordOf(seen.rows[2])>>

\* C6: a load of an existing file with a valid header of which no row
\* survives returns False with the "no valid rows" line and without the schema
\* line, and the batch script then calls no aggregation.
C6_EmptyResult ==
    (seen # NeverLoaded /\ ValidHeader(seen) /\ Survivors(seen.rows) = <<>>) =>
        /\ Loaded =>
               /\ ret.val = Bool(FALSE)
               /\ out # <<>> /\ out[Len(out)] = NoValidRowsLine
               /\ \A i \in 1..Len(out) : out[i] # SchemaLine
        /\ pc # "lib" =>
               /\ pc \in {"main_else", "main_done"}
               /\ ret.op \in {"load_data", "exit"}
               /\ total_sales = Fin(0) /\ top_product = PyNone

C6_Witness ==
    /\ pc = "main_done" /\ ret.op = "exit"
    /\ ValidHeader(seen) /\ Len(seen.rows) = 2 /\ Survivors(seen.rows) = <<>>

\* C7: calculate_total_sales on a non-empty collection returns the sum of
\* price * quantity over all its records and stores it in total_sales.
C7_TotalIsSum ==
    (ret.op = "calculate_total_sales" /\ data # <<>>) =>
        /\ ret.val = RevenueOver(data, 1..Len(data))
        /\ total_sales = ret.val

C7_Witness ==
    /\ ret.op = "calculate_total_sales" /\ Len(data) = 2
    /\ Revenue(data[1]) = Fin(5) /\ Revenue(data[2]) = Fin(10)
    /\ ret.val = Fin(15) /\ total_sales = Fin(15)

\* C8: an aggregation call leaves the record collection as it was and, when
\* the same aggregation was called before with no load_data in between,
\* returns what that call returned.
C8_Idempotent ==
    [][ret'.op \in AggregationOps =>
           /\ data' = data
           /\ (ret'.op = "calculate_total_sales" /\ prev.total # NoCall)
                  => ret'.val = prev.total
           /\ (ret'.op = "find_top_product" /\ prev.top # NoCall)
                  => ret'.val = prev.top]_vars

C8_Witness ==
    /\ prev.repeated /\ Len(data) = 2
    /\ ret.op = "calculate_total_sales"
    /\ prev.total = Fin(15) /\ prev.top # NoCall /\ total_sales = Fin(15)

\* C9: a load of a file with a valid header prints, for every skipped row
\* that has all three fields, exactly one line; the line names row k + 1 for
\* the k-th data row and the reason of the first failing check.
C9_OneLinePerSkippedRow ==
    (Loaded /\ ValidHeader(seen)) =>
        \A k \in 1..Len(seen.rows) :
            (Missing \notin {seen.rows[k][c] : c \in Columns} /\ ~Passes(seen.rows[k])) =>
                /\ Cardinality({i \in 1..Len(out) : out[i].row = k + 1}) = 1
                /\ \E i \in 1..Len(out) : out[i] = Line(k + 1, FirstReason(seen.rows[k]))

C9_Witness ==
    /\ Loaded /\ ValidHeader(seen) /\ Len(seen.rows) = 2
    /\ seen.rows[1] = [product_name |-> "  ", price |-> "x", quantity |-> "1"]
    /\ seen.rows[2] = [product_name |-> "A", price |-> "-1", quantity |-> "x"]
    /\ out = <<Line(2, EmptyName), Line(3, BadQuantity), NoValidRowsLine>>

\* C10: whenever load_data returns False the record collection is empty.
C10_FailedLoadLeavesNoData ==
    (Loaded /\ ret.val = Bool(FALSE)) => data = <<>>

====
